---- MODULE Spec2Model ----
(***************************************************************************)
(* Bond-Hive soroban contracts: the yield farm (farm_contract/src/lib.rs)  *)
(* and the bond vault (src/lib.rs) as state machines.  Each contract entry *)
(* point is one action.  The result of a call is computed by a ...Result   *)
(* operator that runs the checks in the order of the code; a call that     *)
(* returns Err or panics stores nothing.  `last` is the record of the call *)
(* the last step made, if it succeeded: its arguments, return value and    *)
(* reward payouts ("none" after a step of the environment).                *)
(***************************************************************************)
EXTENDS Integers, FiniteSets, Sequences, TLC

\* ---------------------------------------------------------------- bounds
\* the ledger clock runs from 0 to MaxTime
MaxTime == 3
\* amounts passed to deposit and withdraw: -1 .. MaxAmount
MaxAmount == 2
\* pools created in the farm
MaxPools == 1
\* pools created where the pool ids are followed
MaxPoolIds == 3
\* reward tokens are sent to the farm in lots of MaxReward, to an empty balance
MaxReward == 3
\* pool asset each user starts with
UserFunds == 2
\* underlying asset the vault's admin starts with
AdminFunds == 3
\* underlying asset each user of the vault starts with
VaultFunds == 1
\* largest share supply the vault mints
MaxShares == 4
\* AllocatedRewards is followed down to -MaxDeficit
MaxDeficit == 1

\* ------------------------------------------------------ program constants
DECIMALS == 7

RECURSIVE Pow10(_)
Pow10(n) == IF n = 0 THEN 1 ELSE 10 * Pow10(n - 1)

Scale == Pow10(DECIMALS)

\* Rust's integer division: truncation toward zero (b > 0).
TruncDiv(a, b) == IF a >= 0 THEN a \div b ELSE -((-a) \div b)

Min(a, b) == IF a <= b THEN a ELSE b
Max(a, b) == IF a >= b THEN a ELSE b

\* ------------------------------------------------------------- addresses
Users == {"u1", "u2"}
AdminAddr == "adm"
FarmAddr == "farm"
NoAddr == "none"
\* the addresses whose token balances are followed: the users' balances of the
\* pool asset and the farm's own balance of every token.  What a transfer credits
\* to any other balance (a reward paid to a user, a sweep to the admin) is
\* reported in the call record instead.
Holders == Users \cup {FarmAddr}
Tokens == {"T1", "T2", "TP"}

None == [some |-> FALSE, v |-> 0]
Some(x) == [some |-> TRUE, v |-> x]

\* ------------------------------------------------- inputs of the entry points
CallerSet == {AdminAddr, "u1"}
MaturityTime == 2
\* initialize: <<reward token 1, reward token 2, pool token, max ratio 2>>
InitInputs ==
    { <<"T1", NoAddr, "TP", None>>,
      <<"T1", "T2", "TP", Some(Scale)>>,
      <<"T1", NoAddr, "TP", Some(Scale)>>,
      <<"TP", NoAddr, "TP", None>>,
      <<"T1", "TP", "TP", Some(Scale)>>,
      <<"T1", "T1", "TP", Some(Scale)>> }
\* create_pool: <<start time, ratio 1, ratio 2>>
PoolInputs ==
    { <<0, Scale \div 2, None>>,
      <<1, -Scale, None>>,
      <<0, 2 * Scale, None>>,
      <<0, Scale, Some(Scale \div 2)>>,
      <<1, -Scale, Some(Scale)>>,
      <<0, Scale \div 2, Some(2 * Scale)>> }
AmountSet == -1 .. MaxAmount
PoolIdSet == 0 .. MaxPools

VARIABLES
    now,                 \* ledger timestamp
    initialized,         \* DataKey::Initialized
    admin,               \* DataKey::Admin
    rewarded_token1,     \* DataKey::RewardedToken1
    rewarded_token2,     \* DataKey::RewardedToken2 (NoAddr: key absent)
    pool_token,          \* DataKey::PoolToken
    maturity,            \* DataKey::Maturity
    max_reward_ratio1,   \* DataKey::MaxRewardRatio1
    max_reward_ratio2,   \* DataKey::MaxRewardRatio2 (None: key absent)
    stopped,             \* DataKey::Stopped
    pool_counter,        \* DataKey::PoolCounter
    pool_data,           \* persistent (PoolData, id) -> Pool
    user_data,           \* persistent (user, id) -> UserData
    allocated_rewards1,  \* DataKey::AllocatedRewards1
    allocated_rewards2,  \* DataKey::AllocatedRewards2
    balance,             \* the token contracts' ledgers: token -> holder -> amount
    vault_stored,        \* the vault's instance storage holds the keys initialize writes
    vault_admin,         \* DataKey::Admin
    vault_start_time,    \* DataKey::StartTime
    end_time,            \* DataKey::EndTime
    quote_period,        \* DataKey::QuotePeriod
    treasury,            \* DataKey::Treasury
    total_shares,        \* DataKey::TotalShares
    reserve,             \* DataKey::Reserve
    total_reserve,       \* DataKey::TotalReserve
    current_quote,       \* DataKey::CurrentQuote
    quote_expiration,    \* DataKey::QuoteExpiration (Absent: never written)
    asset,               \* ledger of the underlying token: holder -> amount
    shares,              \* ledger of the vault share token: holder -> amount
    last                 \* the successful call made by the last step, with its outputs

farmVars == <<initialized, admin, rewarded_token1, rewarded_token2, pool_token,
              maturity, max_reward_ratio1, max_reward_ratio2, stopped,
              pool_counter, pool_data, user_data, allocated_rewards1,
              allocated_rewards2>>

vaultVars == <<vault_stored, vault_admin, vault_start_time, end_time, quote_period,
               treasury, total_shares, reserve, total_reserve, current_quote,
               quote_expiration, asset, shares>>

vars == <<now, farmVars, balance, vaultVars, last>>

\* token::Client::transfer(from, to, amount) on ledger b of one token
Transfer(b, from, to, amount) ==
    [a \in DOMAIN b |->
        b[a] - (IF a = from THEN amount ELSE 0) + (IF a = to THEN amount ELSE 0)]

BalanceOf(tok, a) == balance[tok][a]

\* ================================================================ farm

\* the record of a successful call: the operation, its address argument a, its
\* amount n and pool id p, the value it returned and the reward it paid out
Called(op, a, n, p, ret, pay1, pay2) ==
    [op |-> op, a |-> a, n |-> n, p |-> p, ret |-> ret, pay1 |-> pay1, pay2 |-> pay2]

NoCall == Called("none", NoAddr, 0, 0, 0, 0, 0)

\* get_rewarded_token2(e)?.is_some()
HasToken2 == rewarded_token2 # NoAddr

\* the quotient taken whatever the sign of the ratio
YieldOf_signed(deposited, ratio, time) ==
    TruncDiv(deposited * ratio * time, Pow10(DECIMALS))

\* (deposited * ratio * time) / 10^DECIMALS, taken only for a positive ratio
YieldOf(deposited, ratio, time) ==
    IF ratio > 0 THEN TruncDiv(deposited * ratio * time, Pow10(DECIMALS)) ELSE 0

Yield1(pool, deposited, time) == YieldOf(deposited, pool.reward_ratio1, time)

Yield2(pool, deposited, time) ==
    IF HasToken2 THEN YieldOf(deposited, pool.reward_ratio2, time) ELSE 0

\* the time since the deposit, not stopped at maturity
TimeElapsed_uncapped(ud) == now - ud.deposit_time

\* core::cmp::min(current_time - deposit_time, maturity - deposit_time)
TimeElapsed(ud) == Min(now - ud.deposit_time, maturity - ud.deposit_time)

\* an admission check that accepts every requirement
has_sufficient_rewards_unchecked(required1, required2) == TRUE

has_sufficient_rewards(required1, required2) ==
    IF HasToken2
    THEN /\ BalanceOf(rewarded_token1, FarmAddr) >= required1
         /\ BalanceOf(rewarded_token2, FarmAddr) >= required2
    ELSE /\ BalanceOf(rewarded_token1, FarmAddr) >= required1
         /\ required2 = 0

FarmInit ==
    /\ initialized = FALSE
    /\ admin = NoAddr
    /\ rewarded_token1 = NoAddr
    /\ rewarded_token2 = NoAddr
    /\ pool_token = NoAddr
    /\ maturity = 0
    /\ max_reward_ratio1 = 0
    /\ max_reward_ratio2 = None
    /\ stopped = FALSE
    /\ pool_counter = 0
    /\ pool_data = <<>>
    /\ user_data = <<>>
    /\ allocated_rewards1 = 0
    /\ allocated_rewards2 = 0

LedgerInit ==
    balance = [t \in Tokens |->
                 [a \in Holders |-> IF t = "TP" /\ a \in Users THEN UserFunds ELSE 0]]

\* Farm::initialize
\* initialize without the check of the Initialized flag
InitializeResult_reinit(t1, t2, tp) ==
    IF t1 = tp THEN "TokenConflict"
    ELSE IF t2 # NoAddr /\ t2 = tp THEN "TokenConflict"
    ELSE IF t2 # NoAddr /\ t2 = t1 THEN "SameRewardTokens"
    ELSE "Ok"

\* initialize without the comparisons of the token addresses
InitializeResult_anytokens(t1, t2, tp) ==
    IF initialized THEN "AlreadyInitialized" ELSE "Ok"

InitializeResult(t1, t2, tp) ==
    IF initialized THEN "AlreadyInitialized"
    ELSE IF t1 = tp THEN "TokenConflict"
    ELSE IF t2 # NoAddr /\ t2 = tp THEN "TokenConflict"
    ELSE IF t2 # NoAddr /\ t2 = t1 THEN "SameRewardTokens"
    ELSE "Ok"

Initialize(adm, t1, t2, tp, mat, m1, m2) ==
    LET res == InitializeResult(t1, t2, tp) IN
    /\ IF res = "Ok"
       THEN /\ last' = Called("initialize", adm, 0, 0, 0, 0, 0)
            /\ admin' = adm
            /\ rewarded_token1' = t1
            /\ rewarded_token2' = t2
            /\ pool_token' = tp
            /\ maturity' = mat
            /\ allocated_rewards1' = 0
            /\ allocated_rewards2' = 0
            /\ pool_counter' = 0
            /\ max_reward_ratio1' = m1
            /\ max_reward_ratio2' = m2
            /\ initialized' = TRUE
            /\ UNCHANGED <<stopped, pool_data, user_data>>
       ELSE UNCHANGED <<farmVars, last>>
    /\ UNCHANGED <<now, vaultVars, balance>>

\* Farm::create_pool
CreatePoolResult(caller, reward_ratio1, reward_ratio2) ==
    IF ~initialized THEN "NotInitialized"
    ELSE IF caller # admin THEN "AuthFailed"
    ELSE IF reward_ratio1 > max_reward_ratio1 THEN "InvalidAmount"
    ELSE IF reward_ratio2.some /\ max_reward_ratio2.some
            /\ reward_ratio2.v > max_reward_ratio2.v THEN "InvalidAmount"
    ELSE IF reward_ratio2.some /\ ~max_reward_ratio2.some THEN "InvalidAmount"
    ELSE IF ~reward_ratio2.some /\ max_reward_ratio2.some THEN "InvalidAmount"
    ELSE "Ok"

\* the pool written over the first stored one
put_pool_data_first(pool_id, pool) == (0 :> pool) @@ pool_data

\* put_pool_data(e, pool_id, pool): the pool stored under its id
put_pool_data(pool_id, pool) == (pool_id :> pool) @@ pool_data

CreatePool(caller, start_time, reward_ratio1, reward_ratio2) ==
    LET res == CreatePoolResult(caller, reward_ratio1, reward_ratio2)
        pool == [start_time |-> start_time,
                 reward_ratio1 |-> reward_ratio1,
                 reward_ratio2 |-> IF reward_ratio2.some THEN reward_ratio2.v ELSE 0]
    IN
    /\ IF res = "Ok"
       THEN /\ last' = Called("create_pool", caller, 0, 0, pool_counter, 0, 0)
            /\ pool_data' = put_pool_data(pool_counter, pool)
            /\ pool_counter' = pool_counter + 1
       ELSE UNCHANGED <<pool_data, pool_counter, last>>
    /\ UNCHANGED <<now, vaultVars, balance, initialized, admin, rewarded_token1,
                   rewarded_token2, pool_token, maturity, max_reward_ratio1,
                   max_reward_ratio2, stopped, user_data, allocated_rewards1,
                   allocated_rewards2>>

\* get_user_data(..).unwrap_or(UserData { deposited: 0, deposit_time: current_time, .. })
UserDataOr(user, pool_id) ==
    IF <<user, pool_id>> \in DOMAIN user_data
    THEN user_data[<<user, pool_id>>]
    ELSE [deposited |-> 0, deposit_time |-> now,
          accrued_rewards1 |-> 0, accrued_rewards2 |-> 0]

\* Farm::deposit: the checks, in the order of the code
\* deposit without the check of the farm's maturity
DepositResult_aftermaturity(depositor, amount, pool_id) ==
    IF stopped THEN "ContractStopped"
    ELSE IF amount < 0 THEN "InvalidAmount"
    ELSE IF amount = 0 THEN "InvalidAmount"
    ELSE IF pool_id \notin DOMAIN pool_data THEN "PoolNotFound"
    ELSE IF ~initialized THEN "NotInitialized"
    ELSE IF now < pool_data[pool_id].start_time THEN "PoolNotActive"
    ELSE IF ~has_sufficient_rewards(
                allocated_rewards1 + Yield1(pool_data[pool_id], amount, maturity - now),
                allocated_rewards2 + Yield2(pool_data[pool_id], amount, maturity - now))
         THEN "InsufficientRewards"
    ELSE IF BalanceOf(pool_token, depositor) < amount THEN "TransferFailed"
    ELSE "Ok"

\* deposit without the check that the amount is not zero
DepositResult_zeroamount(depositor, amount, pool_id) ==
    IF stopped THEN "ContractStopped"
    ELSE IF amount < 0 THEN "InvalidAmount"
    ELSE IF pool_id \notin DOMAIN pool_data THEN "PoolNotFound"
    ELSE IF ~initialized THEN "NotInitialized"
    ELSE IF now >= maturity THEN "PoolNotActive"
    ELSE IF now < pool_data[pool_id].start_time THEN "PoolNotActive"
    ELSE IF ~has_sufficient_rewards(
                allocated_rewards1 + Yield1(pool_data[pool_id], amount, maturity - now),
                allocated_rewards2 + Yield2(pool_data[pool_id], amount, maturity - now))
         THEN "InsufficientRewards"
    ELSE IF BalanceOf(pool_token, depositor) < amount THEN "TransferFailed"
    ELSE "Ok"

DepositResult(depositor, amount, pool_id) ==
    IF stopped THEN "ContractStopped"
    ELSE IF amount < 0 THEN "InvalidAmount"
    ELSE IF amount = 0 THEN "InvalidAmount"
    ELSE IF pool_id \notin DOMAIN pool_data THEN "PoolNotFound"
    ELSE IF ~initialized THEN "NotInitialized"
    ELSE IF now >= maturity THEN "PoolNotActive"
    ELSE IF now < pool_data[pool_id].start_time THEN "PoolNotActive"
    ELSE IF ~has_sufficient_rewards(
                allocated_rewards1 + Yield1(pool_data[pool_id], amount, maturity - now),
                allocated_rewards2 + Yield2(pool_data[pool_id], amount, maturity - now))
         THEN "InsufficientRewards"
    ELSE IF BalanceOf(pool_token, depositor) < amount THEN "TransferFailed"
    ELSE "Ok"

\* the allocation stored whatever the outcome of the call
DepositAllocated_always(res, allocated, potential_yield) == allocated + potential_yield

\* allocated_rewards += potential_yield, stored only by a call that succeeds
DepositAllocated(res, allocated, potential_yield) ==
    IF res = "Ok" THEN allocated + potential_yield ELSE allocated

\* the UserData a deposit stores
DepositUserData(ud, pool, amount) ==
    [deposited |-> ud.deposited + amount,
     deposit_time |-> now,
     accrued_rewards1 |-> ud.accrued_rewards1 + Yield1(pool, ud.deposited, TimeElapsed(ud)),
     accrued_rewards2 |-> ud.accrued_rewards2 + Yield2(pool, ud.deposited, TimeElapsed(ud))]

Deposit(depositor, amount, pool_id) ==
    LET res == DepositResult(depositor, amount, pool_id)
        hasPool == pool_id \in DOMAIN pool_data
        pool == IF hasPool THEN pool_data[pool_id]
                ELSE [start_time |-> 0, reward_ratio1 |-> 0, reward_ratio2 |-> 0]
        potential_yield1 == IF hasPool THEN Yield1(pool, amount, maturity - now) ELSE 0
        potential_yield2 == IF hasPool THEN Yield2(pool, amount, maturity - now) ELSE 0
    IN
    /\ allocated_rewards1' = DepositAllocated(res, allocated_rewards1, potential_yield1)
    /\ allocated_rewards2' = DepositAllocated(res, allocated_rewards2, potential_yield2)
    /\ IF res = "Ok"
       THEN /\ last' = Called("deposit", depositor, amount, pool_id, amount, 0, 0)
            /\ user_data' = (<<depositor, pool_id>> :>
                                DepositUserData(UserDataOr(depositor, pool_id), pool, amount))
                             @@ user_data
            /\ balance' = [balance EXCEPT
                              ![pool_token] = Transfer(@, depositor, FarmAddr, amount)]
       ELSE UNCHANGED <<user_data, balance, last>>
    /\ UNCHANGED <<now, vaultVars, initialized, admin, rewarded_token1, rewarded_token2,
                   pool_token, maturity, max_reward_ratio1, max_reward_ratio2,
                   stopped, pool_counter, pool_data>>

\* a payout that forgets the rewards accrued by earlier deposits
WithdrawPayout1_unaccrued(ud, pool) == Yield1(pool, ud.deposited, TimeElapsed(ud))

\* accrued_rewards + total_yield: what a withdraw pays of each reward token
WithdrawPayout1(ud, pool) ==
    ud.accrued_rewards1 + Yield1(pool, ud.deposited, TimeElapsed(ud))

WithdrawPayout2(ud, pool) ==
    ud.accrued_rewards2 + Yield2(pool, ud.deposited, TimeElapsed(ud))

\* full_yield: the future commitment of the withdrawn principal, released before maturity
EarlyRelease1(pool, amount) ==
    IF now < maturity THEN Yield1(pool, amount, maturity - now) ELSE 0

EarlyRelease2(pool, amount) ==
    IF now < maturity THEN Yield2(pool, amount, maturity - now) ELSE 0

\* the deposit time reset to the time of the withdraw, also past maturity
WithdrawDepositTime_uncapped == now

\* user_data.deposit_time after a withdraw
WithdrawDepositTime == IF now < maturity THEN now ELSE maturity

\* Farm::withdraw: the checks, in the order of the code; a token transfer the
\* farm cannot cover panics in the token contract
\* a withdraw that the stop switch blocks as it blocks deposits
WithdrawResult_stopgated(withdrawer, amount, pool_id) ==
    IF stopped THEN "ContractStopped"
    ELSE IF amount < 0 THEN "InvalidAmount"
    ELSE IF pool_id \notin DOMAIN pool_data THEN "PoolNotFound"
    ELSE IF ~initialized THEN "NotInitialized"
    ELSE IF <<withdrawer, pool_id>> \notin DOMAIN user_data THEN "UserNotFound"
    ELSE IF amount > user_data[<<withdrawer, pool_id>>].deposited THEN "InvalidAmount"
    ELSE IF now < pool_data[pool_id].start_time THEN "PoolNotActive"
    ELSE LET ud == user_data[<<withdrawer, pool_id>>]
             pool == pool_data[pool_id]
         IN  IF amount > 0 /\ BalanceOf(pool_token, FarmAddr) < amount
             THEN "TransferFailed"
             ELSE IF WithdrawPayout1(ud, pool) > 0
                     /\ BalanceOf(rewarded_token1, FarmAddr) < WithdrawPayout1(ud, pool)
             THEN "TransferFailed"
             ELSE IF WithdrawPayout2(ud, pool) > 0 /\ HasToken2
                     /\ BalanceOf(rewarded_token2, FarmAddr) < WithdrawPayout2(ud, pool)
             THEN "TransferFailed"
             ELSE "Ok"

\* a withdraw that does not compare the amount with the position
WithdrawResult_overdraw(withdrawer, amount, pool_id) ==
    IF amount < 0 THEN "InvalidAmount"
    ELSE IF pool_id \notin DOMAIN pool_data THEN "PoolNotFound"
    ELSE IF ~initialized THEN "NotInitialized"
    ELSE IF <<withdrawer, pool_id>> \notin DOMAIN user_data THEN "UserNotFound"
    ELSE IF now < pool_data[pool_id].start_time THEN "PoolNotActive"
    ELSE LET ud == user_data[<<withdrawer, pool_id>>]
             pool == pool_data[pool_id]
         IN  IF amount > 0 /\ BalanceOf(pool_token, FarmAddr) < amount
             THEN "TransferFailed"
             ELSE IF WithdrawPayout1(ud, pool) > 0
                     /\ BalanceOf(rewarded_token1, FarmAddr) < WithdrawPayout1(ud, pool)
             THEN "TransferFailed"
             ELSE IF WithdrawPayout2(ud, pool) > 0 /\ HasToken2
                     /\ BalanceOf(rewarded_token2, FarmAddr) < WithdrawPayout2(ud, pool)
             THEN "TransferFailed"
             ELSE "Ok"

WithdrawResult(withdrawer, amount, pool_id) ==
    IF amount < 0 THEN "InvalidAmount"
    ELSE IF pool_id \notin DOMAIN pool_data THEN "PoolNotFound"
    ELSE IF ~initialized THEN "NotInitialized"
    ELSE IF <<withdrawer, pool_id>> \notin DOMAIN user_data THEN "UserNotFound"
    ELSE IF amount > user_data[<<withdrawer, pool_id>>].deposited THEN "InvalidAmount"
    ELSE IF now < pool_data[pool_id].start_time THEN "PoolNotActive"
    ELSE LET ud == user_data[<<withdrawer, pool_id>>]
             pool == pool_data[pool_id]
         IN  IF amount > 0 /\ BalanceOf(pool_token, FarmAddr) < amount
             THEN "TransferFailed"
             ELSE IF WithdrawPayout1(ud, pool) > 0
                     /\ BalanceOf(rewarded_token1, FarmAddr) < WithdrawPayout1(ud, pool)
             THEN "TransferFailed"
             ELSE IF WithdrawPayout2(ud, pool) > 0 /\ HasToken2
                     /\ BalanceOf(rewarded_token2, FarmAddr) < WithdrawPayout2(ud, pool)
             THEN "TransferFailed"
             ELSE "Ok"

\* the three transfers of a withdraw, the first reward taken from the pool asset
WithdrawBalance_rewardfrompool(withdrawer, amount, pay1, pay2) ==
    LET b0 == IF amount > 0
              THEN [balance EXCEPT ![pool_token] = Transfer(@, FarmAddr, withdrawer, amount)]
              ELSE balance
        b1 == IF pay1 > 0
              THEN [b0 EXCEPT ![pool_token] = Transfer(@, FarmAddr, withdrawer, pay1)]
              ELSE b0
        b2 == IF pay2 > 0 /\ HasToken2
              THEN [b1 EXCEPT ![rewarded_token2] = Transfer(@, FarmAddr, withdrawer, pay2)]
              ELSE b1
    IN b2

\* the three transfers of a withdraw, on the token ledgers
WithdrawBalance(withdrawer, amount, pay1, pay2) ==
    LET b0 == IF amount > 0
              THEN [balance EXCEPT ![pool_token] = Transfer(@, FarmAddr, withdrawer, amount)]
              ELSE balance
        b1 == IF pay1 > 0
              THEN [b0 EXCEPT ![rewarded_token1] = Transfer(@, FarmAddr, withdrawer, pay1)]
              ELSE b0
        b2 == IF pay2 > 0 /\ HasToken2
              THEN [b1 EXCEPT ![rewarded_token2] = Transfer(@, FarmAddr, withdrawer, pay2)]
              ELSE b1
    IN b2

Withdraw(withdrawer, amount, pool_id) ==
    LET res == WithdrawResult(withdrawer, amount, pool_id)
        key == <<withdrawer, pool_id>>
    IN
    IF res = "Ok"
    THEN LET ud == user_data[key]
             pool == pool_data[pool_id]
             pay1 == WithdrawPayout1(ud, pool)
             pay2 == WithdrawPayout2(ud, pool)
             left == ud.deposited - amount
         IN
         /\ allocated_rewards1 - pay1 - EarlyRelease1(pool, amount) >= -MaxDeficit
         /\ allocated_rewards2 - pay2 - EarlyRelease2(pool, amount) >= -MaxDeficit
         /\ last' = Called("withdraw", withdrawer, amount, pool_id, amount,
                             IF pay1 > 0 THEN pay1 ELSE 0,
                             IF pay2 > 0 /\ HasToken2 THEN pay2 ELSE 0)
         /\ balance' = WithdrawBalance(withdrawer, amount, pay1, pay2)
         /\ allocated_rewards1' = allocated_rewards1 - pay1 - EarlyRelease1(pool, amount)
         /\ allocated_rewards2' = allocated_rewards2 - pay2 - EarlyRelease2(pool, amount)
         /\ user_data' =
               IF left > 0
               THEN [user_data EXCEPT ![key] =
                        [deposited |-> left,
                         deposit_time |-> WithdrawDepositTime,
                         accrued_rewards1 |-> 0,
                         accrued_rewards2 |-> 0]]
               ELSE [k \in DOMAIN user_data \ {key} |-> user_data[k]]
         /\ UNCHANGED <<now, vaultVars, initialized, admin, rewarded_token1, rewarded_token2,
                        pool_token, maturity, max_reward_ratio1, max_reward_ratio2,
                        stopped, pool_counter, pool_data>>
    ELSE UNCHANGED vars

\* set_admin whoever authorizes it
SetAdminResult_unauthorized(caller) ==
    IF ~initialized THEN "NotInitialized" ELSE "Ok"

\* Farm::set_admin: get_admin(e)? and admin.require_auth()
SetAdminResult(caller) ==
    IF ~initialized THEN "NotInitialized"
    ELSE IF caller # admin THEN "AuthFailed" ELSE "Ok"

\* Farm::set_admin; the call record holds the new admin
SetAdmin(caller, new_admin) ==
    /\ SetAdminResult(caller) = "Ok"
    /\ last' = Called("set_admin", new_admin, 0, 0, 0, 0, 0)
    /\ admin' = new_admin
    /\ UNCHANGED <<now, vaultVars, balance, initialized, rewarded_token1, rewarded_token2,
                   pool_token, maturity, max_reward_ratio1, max_reward_ratio2,
                   stopped, pool_counter, pool_data, user_data,
                   allocated_rewards1, allocated_rewards2>>

\* max(available_balance - allocated_rewards, 0)
Unallocated(available_balance, allocated) == Max(available_balance - allocated, 0)

\* unallocated_rewards of each track
UnallocatedRewards1 ==
    Unallocated(BalanceOf(rewarded_token1, FarmAddr), allocated_rewards1)

UnallocatedRewards2 ==
    Unallocated(IF HasToken2 THEN BalanceOf(rewarded_token2, FarmAddr) ELSE 0,
                allocated_rewards2)

\* Farm::withdraw_unallocated_rewards: the checks; a transfer of more than the
\* farm holds panics in the token contract
WithdrawUnallocatedResult(caller) ==
    IF ~initialized THEN "NotInitialized"
    ELSE IF caller # admin THEN "AuthFailed"
    ELSE IF now < maturity THEN "NotAuthorized"
    ELSE IF UnallocatedRewards1 > BalanceOf(rewarded_token1, FarmAddr) THEN "TransferFailed"
    ELSE IF HasToken2 /\ UnallocatedRewards2 > BalanceOf(rewarded_token2, FarmAddr)
         THEN "TransferFailed"
    ELSE "Ok"

\* Farm::withdraw_unallocated_rewards; the admin's own balances are not kept
WithdrawUnallocatedRewards(caller) ==
    IF WithdrawUnallocatedResult(caller) = "Ok"
    THEN LET b1 == IF UnallocatedRewards1 > 0
                   THEN [balance EXCEPT ![rewarded_token1] =
                            Transfer(@, FarmAddr, admin, UnallocatedRewards1)]
                   ELSE balance
             b2 == IF HasToken2 /\ UnallocatedRewards2 > 0
                   THEN [b1 EXCEPT ![rewarded_token2] =
                            Transfer(@, FarmAddr, admin, UnallocatedRewards2)]
                   ELSE b1
         IN
         /\ last' = Called("withdraw_unallocated_rewards", caller, 0, 0, 0,
                             UnallocatedRewards1, UnallocatedRewards2)
         /\ balance' = b2
         /\ UNCHANGED <<now, vaultVars, farmVars>>
    ELSE UNCHANGED vars

\* Farm::set_contract_stopped: get_admin(e)? and current_admin.require_auth()
SetContractStoppedResult(caller) ==
    IF ~initialized THEN "NotInitialized"
    ELSE IF caller # admin THEN "AuthFailed" ELSE "Ok"

\* Farm::set_contract_stopped
SetContractStopped(caller, flag) ==
    /\ SetContractStoppedResult(caller) = "Ok"
    /\ last' = Called("set_contract_stopped", caller, IF flag THEN 1 ELSE 0, 0, 0, 0, 0)
    /\ stopped' = flag
    /\ UNCHANGED <<now, vaultVars, balance, initialized, admin, rewarded_token1,
                   rewarded_token2, pool_token, maturity, max_reward_ratio1,
                   max_reward_ratio2, pool_counter, pool_data, user_data,
                   allocated_rewards1, allocated_rewards2>>

\* the ledger clock advances
Tick ==
    /\ now < MaxTime
    /\ now' = now + 1
    /\ last' = NoCall
    /\ UNCHANGED <<farmVars, balance, vaultVars>>

\* reward tokens sent to the farm from outside (token mint / transfer to the farm)
FundRewards(tok, k) ==
    /\ initialized
    /\ tok \in {rewarded_token1, rewarded_token2} \ {NoAddr}
    /\ BalanceOf(tok, FarmAddr) + k <= MaxReward
    /\ balance' = [balance EXCEPT ![tok][FarmAddr] = @ + k]
    /\ last' = NoCall
    /\ UNCHANGED <<now, vaultVars, farmVars>>

\* Farm::get_user_info: the checks
GetUserInfoResult(user, pool_id) ==
    IF <<user, pool_id>> \notin DOMAIN user_data THEN "UserNotFound"
    ELSE IF pool_id \notin DOMAIN pool_data THEN "PoolNotFound"
    ELSE IF ~initialized THEN "NotInitialized"
    ELSE "Ok"

\* the query with the elapsed time not stopped at maturity
get_user_info_uncapped(user, pool_id) ==
    LET ud == user_data[<<user, pool_id>>]
        pool == pool_data[pool_id]
        time_elapsed == now - ud.deposit_time
        accrued_yield1 ==
            IF pool.reward_ratio1 > 0
            THEN TruncDiv(ud.deposited * pool.reward_ratio1 * time_elapsed, Pow10(DECIMALS))
            ELSE 0
        accrued_yield2 ==
            IF pool.reward_ratio2 > 0 /\ HasToken2
            THEN TruncDiv(ud.deposited * pool.reward_ratio2 * time_elapsed, Pow10(DECIMALS))
            ELSE 0
    IN [deposited |-> ud.deposited,
        deposit_time |-> ud.deposit_time,
        accrued_rewards1 |-> ud.accrued_rewards1 + accrued_yield1,
        accrued_rewards2 |-> ud.accrued_rewards2 + accrued_yield2]

\* Farm::get_user_info: the UserData returned for a stored position
get_user_info(user, pool_id) ==
    LET ud == user_data[<<user, pool_id>>]
        pool == pool_data[pool_id]
        time_elapsed == Min(now - ud.deposit_time, maturity - ud.deposit_time)
        accrued_yield1 ==
            IF pool.reward_ratio1 > 0
            THEN TruncDiv(ud.deposited * pool.reward_ratio1 * time_elapsed, Pow10(DECIMALS))
            ELSE 0
        accrued_yield2 ==
            IF pool.reward_ratio2 > 0 /\ HasToken2
            THEN TruncDiv(ud.deposited * pool.reward_ratio2 * time_elapsed, Pow10(DECIMALS))
            ELSE 0
    IN [deposited |-> ud.deposited,
        deposit_time |-> ud.deposit_time,
        accrued_rewards1 |-> ud.accrued_rewards1 + accrued_yield1,
        accrued_rewards2 |-> ud.accrued_rewards2 + accrued_yield2]

\* Farm::get_user_info as a call: it stores nothing
GetUserInfo(user, pool_id) == UNCHANGED vars

FarmNext ==
    \/ \E i \in InitInputs :
          Initialize(AdminAddr, i[1], i[2], i[3], MaturityTime, Scale, i[4])
    \/ /\ pool_counter < MaxPools
       /\ \E c \in CallerSet, i \in PoolInputs : CreatePool(c, i[1], i[2], i[3])
    \/ \E u \in Users, n \in AmountSet, p \in PoolIdSet : Deposit(u, n, p)
    \/ \E u \in Users, n \in AmountSet, p \in PoolIdSet : Withdraw(u, n, p)
    \/ \E c \in CallerSet : WithdrawUnallocatedRewards(c)
    \/ \E c \in CallerSet, f \in BOOLEAN : SetContractStopped(c, f)
    \/ \E tok \in {"T1", "T2"} : FundRewards(tok, MaxReward)
    \/ \E u \in Users, p \in PoolIdSet : GetUserInfo(u, p)
    \/ Tick

(***************************************************************************)
(* The vault (src/src/lib.rs)                                              *)
(***************************************************************************)

VaultAddr == "vault"
TreasuryAddr == "tre"
\* the address a later set_treasury names
NewTreasuryAddr == "tre2"
VaultHolders == Users \cup {AdminAddr, TreasuryAddr, NewTreasuryAddr, VaultAddr}
ShareHolders == Users \cup {VaultAddr}

\* DataKey::QuoteExpiration before the first set_quote: the key is not in storage
Absent == -1

\* inputs of the vault's calls
\* <<start_time, end_time, quote_period>>
VaultInitInputs == {<<0, 2, 1>>, <<1, 2, 1>>}
QuoteSet == -1 .. MaxAmount
ReserveSet == {-1, 0, AdminFunds}

\* storage of an instance on which initialize was never run, and the ledgers
VaultEmpty ==
    /\ vault_stored = FALSE
    /\ vault_admin = NoAddr
    /\ vault_start_time = 0
    /\ end_time = 0
    /\ quote_period = 0
    /\ treasury = NoAddr
    /\ total_shares = 0
    /\ reserve = 0
    /\ total_reserve = 0
    /\ current_quote = 0
    /\ quote_expiration = Absent

VaultLedgerInit ==
    /\ asset = [a \in VaultHolders |->
                   IF a \in Users THEN VaultFunds
                   ELSE IF a = AdminAddr THEN AdminFunds ELSE 0]
    /\ shares = [a \in ShareHolders |-> 0]

\* storage as the body of initialize writes it
VaultStored(adm, start, end, period, tre) ==
    /\ vault_stored = TRUE
    /\ vault_admin = adm
    /\ vault_start_time = start
    /\ end_time = end
    /\ quote_period = period
    /\ treasury = tre
    /\ total_shares = 0
    /\ reserve = 0
    /\ total_reserve = 0
    /\ current_quote = 0
    /\ quote_expiration = Absent

\* a quote that never lapses
get_current_quote_unexpiring ==
    IF current_quote # 0 /\ quote_expiration # 0 THEN current_quote ELSE 0

\* get_current_quote: the stored quote while it is live, else 0
get_current_quote ==
    IF current_quote # 0 /\ quote_expiration # 0
    THEN IF now <= quote_expiration THEN current_quote ELSE 0
    ELSE 0

\* initialize: get_start_time unwraps a key that a fresh instance does not hold
VaultInitializeResult ==
    IF ~vault_stored THEN "Panic"
    ELSE IF vault_start_time > 0 THEN "AlreadyInitialized"
    ELSE "Ok"

VaultInitialize(adm, start, end, period, tre) ==
    IF VaultInitializeResult = "Ok"
    THEN /\ vault_admin' = adm
         /\ vault_start_time' = start
         /\ end_time' = end
         /\ quote_period' = period
         /\ treasury' = tre
         /\ total_shares' = 0
         /\ reserve' = 0
         /\ total_reserve' = 0
         /\ current_quote' = 0
         /\ shares' = [a \in ShareHolders |-> 0]
         /\ last' = Called("vault_initialize", adm, 0, 0, 0, 0, 0)
         /\ UNCHANGED <<now, farmVars, balance, vault_stored, quote_expiration, asset>>
    ELSE UNCHANGED vars

VaultSetQuoteResult(caller, amount) ==
    IF ~vault_stored THEN "Panic"
    ELSE IF caller # vault_admin THEN "AuthFailed"
    ELSE IF amount < 0 THEN "NegativeAmount"
    ELSE "Ok"

VaultSetQuote(caller, amount) ==
    IF VaultSetQuoteResult(caller, amount) = "Ok"
    THEN /\ current_quote' = amount
         /\ quote_expiration' = now + quote_period
         /\ last' = Called("set_quote", caller, amount, 0, 0, 0, 0)
         /\ UNCHANGED <<now, farmVars, balance, vault_stored, vault_admin,
                        vault_start_time, end_time, quote_period, treasury,
                        total_shares, reserve, total_reserve, asset, shares>>
    ELSE UNCHANGED vars

\* shares minted one for one, whatever the quote
Quantity_unquoted(amount, quote) == amount

\* deposit: quantity = amount * quote
Quantity(amount, quote) == amount * quote

\* deposit: the checks in the order of the code
VaultDepositResult(from, amount) ==
    IF ~vault_stored THEN "Panic"
    ELSE IF amount < 0 THEN "NegativeAmount"
    ELSE IF now > end_time THEN "MaturityReached"
    ELSE IF now < vault_start_time THEN "NotOpenYet"
    ELSE IF quote_expiration = Absent THEN "Panic"
    ELSE IF get_current_quote = 0 THEN "QuoteRequired"
    ELSE IF asset[from] < amount THEN "TransferFailed"
    ELSE "Ok"

VaultDeposit(from, amount) ==
    IF VaultDepositResult(from, amount) = "Ok"
    THEN LET quantity == Quantity(amount, get_current_quote) IN
         /\ total_shares + quantity <= MaxShares
         /\ asset' = Transfer(asset, from, treasury, amount)
         /\ shares' = [shares EXCEPT ![from] = @ + quantity]
         /\ total_shares' = total_shares + quantity
         /\ reserve' = reserve + amount
         /\ last' = Called("vault_deposit", from, amount, 0, quantity, 0, 0)
         /\ UNCHANGED <<now, farmVars, balance, vault_stored, vault_admin,
                        vault_start_time, end_time, quote_period, treasury,
                        total_reserve, current_quote, quote_expiration>>
    ELSE UNCHANGED vars

\* the payout with the multiplication done before the division
AssetAmount_mulfirst(reserve_total, shares_total, amount) ==
    TruncDiv(reserve_total * amount, shares_total)

\* withdraw: asset_amount = total_reserve / get_total_shares * amount
AssetAmount(reserve_total, shares_total, amount) ==
    TruncDiv(reserve_total, shares_total) * amount

\* withdraw without the check that a redemption was posted
VaultWithdrawResult_unposted(to, amount) ==
    IF ~vault_stored THEN "Panic"
    ELSE IF amount < 0 THEN "NegativeAmount"
    ELSE IF now < end_time THEN "MaturityNotReached"
    ELSE IF shares[to] < amount THEN "TransferFailed"
    ELSE IF total_shares = 0 THEN "Panic"
    ELSE IF asset[VaultAddr] < AssetAmount(total_reserve, total_shares, amount)
         THEN "TransferFailed"
    ELSE "Ok"

\* withdraw without the transfer of the caller's shares to the vault
VaultWithdrawResult_anycaller(to, amount) ==
    IF ~vault_stored THEN "Panic"
    ELSE IF amount < 0 THEN "NegativeAmount"
    ELSE IF now < end_time THEN "MaturityNotReached"
    ELSE IF total_reserve = 0 THEN "ReserveNotSet"
    ELSE IF total_shares = 0 THEN "Panic"
    ELSE IF asset[VaultAddr] < AssetAmount(total_reserve, total_shares, amount)
         THEN "TransferFailed"
    ELSE "Ok"

VaultWithdrawResult(to, amount) ==
    IF ~vault_stored THEN "Panic"
    ELSE IF amount < 0 THEN "NegativeAmount"
    ELSE IF now < end_time THEN "MaturityNotReached"
    ELSE IF total_reserve = 0 THEN "ReserveNotSet"
    ELSE IF shares[to] < amount THEN "TransferFailed"
    ELSE IF total_shares = 0 THEN "Panic"
    ELSE IF asset[VaultAddr] < AssetAmount(total_reserve, total_shares, amount)
         THEN "TransferFailed"
    ELSE "Ok"

VaultWithdraw(to, amount) ==
    IF VaultWithdrawResult(to, amount) = "Ok"
    THEN LET asset_amount == AssetAmount(total_reserve, total_shares, amount) IN
         /\ shares' = [shares EXCEPT ![to] = @ - amount]
         /\ asset' = Transfer(asset, VaultAddr, to, asset_amount)
         /\ total_shares' = total_shares - amount
         /\ total_reserve' = total_reserve - asset_amount
         /\ last' = Called("vault_withdraw", to, amount, 0, asset_amount, 0, 0)
         /\ UNCHANGED <<now, farmVars, balance, vault_stored, vault_admin,
                        vault_start_time, end_time, quote_period, treasury,
                        reserve, current_quote, quote_expiration>>
    ELSE UNCHANGED vars

VaultSetTotalReserveResult(caller, amount) ==
    IF ~vault_stored THEN "Panic"
    ELSE IF amount < 0 THEN "NegativeAmount"
    ELSE IF now < end_time THEN "MaturityNotReached"
    ELSE IF total_reserve > 0 THEN "AlreadySet"
    ELSE IF caller # vault_admin THEN "AuthFailed"
    ELSE IF asset[vault_admin] < amount THEN "TransferFailed"
    ELSE "Ok"

VaultSetTotalReserve(caller, amount) ==
    IF VaultSetTotalReserveResult(caller, amount) = "Ok"
    THEN /\ asset' = Transfer(asset, vault_admin, VaultAddr, amount)
         /\ total_reserve' = amount
         /\ last' = Called("set_total_reserve", caller, amount, 0, 0, 0, 0)
         /\ UNCHANGED <<now, farmVars, balance, vault_stored, vault_admin,
                        vault_start_time, end_time, quote_period, treasury,
                        total_shares, reserve, current_quote, quote_expiration,
                        shares>>
    ELSE UNCHANGED vars

VaultSetTreasuryResult(caller) ==
    IF ~vault_stored THEN "Panic"
    ELSE IF caller # vault_admin THEN "AuthFailed"
    ELSE "Ok"

VaultSetTreasury(caller, new_treasury) ==
    IF VaultSetTreasuryResult(caller) = "Ok"
    THEN /\ treasury' = new_treasury
         /\ last' = Called("set_treasury", caller, 0, 0, 0, 0, 0)
         /\ UNCHANGED <<now, farmVars, balance, vault_stored, vault_admin,
                        vault_start_time, end_time, quote_period,
                        total_shares, reserve, total_reserve, current_quote,
                        quote_expiration, asset, shares>>
    ELSE UNCHANGED vars

\* a holder sends share tokens to another holder through the share token contract
ShareTransfer(from, to, amount) ==
    /\ vault_stored
    /\ from # to
    /\ shares[from] >= amount
    /\ shares' = Transfer(shares, from, to, amount)
    /\ last' = NoCall
    /\ UNCHANGED <<now, farmVars, balance, vault_stored, vault_admin,
                   vault_start_time, end_time, quote_period, treasury,
                   total_shares, reserve, total_reserve, current_quote,
                   quote_expiration, asset>>

\* the share token's mint entry point called directly: the token accepts it
\* from its administrator only, and initialize makes the vault that
\* administrator
ShareMintResult(caller) ==
    IF ~vault_stored THEN "Panic"
    ELSE IF caller # VaultAddr THEN "AuthFailed"
    ELSE "Ok"

ShareMint(caller, to, amount) ==
    IF ShareMintResult(caller) = "Ok"
    THEN /\ shares' = [shares EXCEPT ![to] = @ + amount]
         /\ last' = NoCall
         /\ UNCHANGED <<now, farmVars, balance, vault_stored, vault_admin,
                        vault_start_time, end_time, quote_period, treasury,
                        total_shares, reserve, total_reserve, current_quote,
                        quote_expiration, asset>>
    ELSE UNCHANGED vars

VaultNext ==
    \/ \E i \in VaultInitInputs :
          VaultInitialize(AdminAddr, i[1], i[2], i[3], TreasuryAddr)
    \/ \E c \in CallerSet, q \in QuoteSet : VaultSetQuote(c, q)
    \/ \E u \in Users, n \in AmountSet : VaultDeposit(u, n)
    \/ \E u \in Users, n \in -1 .. MaxShares : VaultWithdraw(u, n)
    \/ \E c \in CallerSet, n \in ReserveSet : VaultSetTotalReserve(c, n)
    \/ \E u, v \in Users : ShareTransfer(u, v, 1)
    \/ \E c \in CallerSet, u \in Users : ShareMint(c, u, 1)
    \/ Tick

(***************************************************************************)
(* Specifications                                                          *)
(***************************************************************************)

\* the farm, next to a vault instance that is never initialized
Init ==
    /\ now = 0
    /\ FarmInit
    /\ LedgerInit
    /\ VaultEmpty
    /\ VaultLedgerInit
    /\ last = NoCall

Next == FarmNext

Spec == Init /\ [][Next]_vars

\* the vault, either a fresh instance or one holding what initialize writes
InitVault ==
    /\ now = 0
    /\ FarmInit
    /\ LedgerInit
    /\ \/ VaultEmpty
       \/ \E i \in VaultInitInputs :
             VaultStored(AdminAddr, i[1], i[2], i[3], TreasuryAddr)
    /\ VaultLedgerInit
    /\ last = NoCall

SpecVault == InitVault /\ [][VaultNext]_vars

\* the step is a successful call of op: a call that fails, or that changes
\* nothing, is a stuttering step
Did(op) == last'.op = op /\ ~UNCHANGED vars

(***************************************************************************)
(* Properties of the farm                                                  *)
(***************************************************************************)

\* C1: in every reachable state of the farm, AllocatedRewards_i is at most the
\* farm's own balance of reward token i, for each enabled reward track i
C1_Solvency ==
    initialized =>
        /\ allocated_rewards1 <= BalanceOf(rewarded_token1, FarmAddr)
        /\ HasToken2 => allocated_rewards2 <= BalanceOf(rewarded_token2, FarmAddr)

\* a deposit has just reserved the whole reward balance of both tracks
C1_Witness ==
    /\ last.op = "deposit"
    /\ HasToken2
    /\ allocated_rewards1 > 0
    /\ allocated_rewards1 = BalanceOf(rewarded_token1, FarmAddr)
    /\ allocated_rewards2 > 0
    /\ allocated_rewards2 = BalanceOf(rewarded_token2, FarmAddr)

\* amount * ratio * (maturity - now) / 10^7, truncated toward zero
Commitment(amount, ratio) == TruncDiv(amount * ratio * (maturity - now), Scale)

\* the same commitment, counted as 0 in a pool whose ratio is not positive
CommitmentPos(amount, ratio) == IF ratio > 0 THEN Commitment(amount, ratio) ELSE 0

\* every check of a deposit other than the admission check passes
OtherChecksPass(u, n, p) ==
    /\ initialized
    /\ ~stopped
    /\ n > 0
    /\ p \in DOMAIN pool_data
    /\ now < maturity
    /\ now >= pool_data[p].start_time
    /\ BalanceOf(pool_token, u) >= n

\* AllocatedRewards_i + potential_i <= farm balance of reward token i, each enabled track
Admitted(n, p, Pot(_, _)) ==
    /\ allocated_rewards1 + Pot(n, pool_data[p].reward_ratio1)
          <= BalanceOf(rewarded_token1, FarmAddr)
    /\ HasToken2 =>
          allocated_rewards2 + Pot(n, pool_data[p].reward_ratio2)
             <= BalanceOf(rewarded_token2, FarmAddr)

AdmissionRule(Pot(_, _)) ==
    \A u \in Users, n \in AmountSet, p \in PoolIdSet :
        OtherChecksPass(u, n, p) =>
            /\ DepositResult(u, n, p) = "Ok" <=> Admitted(n, p, Pot)
            /\ ~Admitted(n, p, Pot) => DepositResult(u, n, p) = "InsufficientRewards"

DepositEffect(Pot(_, _)) ==
    Did("deposit") =>
        LET u == last'.a
            n == last'.n
            p == last'.p
        IN
            /\ allocated_rewards1' =
                  allocated_rewards1 + Pot(n, pool_data[p].reward_ratio1)
            /\ HasToken2 =>
                  allocated_rewards2' =
                     allocated_rewards2 + Pot(n, pool_data[p].reward_ratio2)
            /\ user_data'[<<u, p>>].deposited = UserDataOr(u, p).deposited + n
            /\ balance'[pool_token][u] = BalanceOf(pool_token, u) - n
            /\ balance'[pool_token][FarmAddr] = BalanceOf(pool_token, FarmAddr) + n

\* C2: a deposit that passes every other check succeeds exactly when
\* AllocatedRewards_i + potential_i is at most the farm's balance of reward
\* token i on every enabled track, and fails with InsufficientRewards otherwise;
\* potential_i is amount * ratio_i * (maturity - now) / 10^7 truncated, counted
\* as 0 when ratio_i is not positive. A successful deposit adds potential_i to
\* AllocatedRewards_i, adds amount to the position's deposited and moves amount
\* of pool asset from the depositor to the farm.
C2_Admission ==
    /\ [](AdmissionRule(CommitmentPos))
    /\ [][DepositEffect(CommitmentPos)]_vars

\* C2 as stated: potential_i is amount * ratio_i * (maturity - now) / 10^7
\* whatever the sign of ratio_i
C2_AsStated ==
    /\ [](AdmissionRule(Commitment))
    /\ [][DepositEffect(Commitment)]_vars

\* a deposit has reserved rewards, and a further deposit that passes every
\* other check is refused for insufficient rewards
C2_Witness ==
    /\ last.op = "deposit"
    /\ allocated_rewards1 > 0
    /\ \E u \in Users, n \in AmountSet, p \in PoolIdSet :
          OtherChecksPass(u, n, p) /\ DepositResult(u, n, p) = "InsufficientRewards"

\* the reward of track i still promised to the position stored under key k:
\* accrued_rewards_i + deposited * ratio_i * (maturity - deposit_time) / 10^7
PositionPromise(k, i) ==
    LET ud == user_data[k]
        pool == pool_data[k[2]]
        ratio == IF i = 1 THEN pool.reward_ratio1 ELSE pool.reward_ratio2
        accrued == IF i = 1 THEN ud.accrued_rewards1 ELSE ud.accrued_rewards2
    IN accrued + TruncDiv(ud.deposited * ratio * (maturity - ud.deposit_time), Scale)

RECURSIVE Promised(_, _)
Promised(keys, i) ==
    IF keys = {} THEN 0
    ELSE LET k == CHOOSE x \in keys : TRUE
         IN PositionPromise(k, i) + Promised(keys \ {k}, i)

\* every pool pays a positive ratio on every enabled track
PositiveRatios ==
    \A p \in DOMAIN pool_data :
        /\ pool_data[p].reward_ratio1 > 0
        /\ HasToken2 => pool_data[p].reward_ratio2 > 0

\* C5: AllocatedRewards_i equals the sum over all stored positions of
\* accrued_rewards_i + deposited * ratio_i * (maturity - deposit_time) / 10^7,
\* for each enabled track i; read here only in farms whose pools all pay
\* positive ratios
C5_Ledger ==
    initialized /\ PositiveRatios =>
        /\ allocated_rewards1 = Promised(DOMAIN user_data, 1)
        /\ HasToken2 => allocated_rewards2 = Promised(DOMAIN user_data, 2)

\* a withdraw of last'.n from position <<last'.a, last'.p>> before maturity
\* reduces AllocatedRewards_i by the reward it pays plus Pot(amount, ratio_i)
EarlyExitRelease(Pot(_, _)) ==
    Did("withdraw") /\ now < maturity =>
        LET pool == pool_data[last'.p] IN
        /\ allocated_rewards1' =
              allocated_rewards1 - last'.pay1 - Pot(last'.n, pool.reward_ratio1)
        /\ HasToken2 =>
              allocated_rewards2' =
                 allocated_rewards2 - last'.pay2 - Pot(last'.n, pool.reward_ratio2)

\* after such a withdraw the commitment of the principal left in the position,
\* (deposited - amount) * ratio_i * (maturity - now) / 10^7, is still allocated
EarlyExitKeeps ==
    Did("withdraw") /\ now < maturity /\ last'.n > 0 =>
        LET pool == pool_data[last'.p]
            left == user_data[<<last'.a, last'.p>>].deposited - last'.n
        IN
        /\ allocated_rewards1' >= CommitmentPos(left, pool.reward_ratio1)
        /\ HasToken2 => allocated_rewards2' >= CommitmentPos(left, pool.reward_ratio2)

\* C6: a withdraw of a > 0 before maturity reduces AllocatedRewards_i by exactly
\* the reward it pays out plus a * ratio_i * (maturity - now) / 10^7, and the
\* commitment of the principal left in the position stays allocated; read
\* here with a ratio that is not positive counted as 0
C6_EarlyExit == [][EarlyExitRelease(CommitmentPos) /\ EarlyExitKeeps]_vars

\* the position stored under key k in positions, an absent one holding nothing
PositionIn(positions, k) ==
    IF k \in DOMAIN positions THEN positions[k]
    ELSE [deposited |-> 0, deposit_time |-> 0,
          accrued_rewards1 |-> 0, accrued_rewards2 |-> 0]

\* accrued + deposited * ratio * elapsed / 10^7, truncated toward zero
PayoutAsStated(accrued, deposited, ratio, elapsed) ==
    accrued + TruncDiv(deposited * ratio * elapsed, Scale)

\* the same, a ratio that is not positive earning nothing
PayoutPos(accrued, deposited, ratio, elapsed) ==
    accrued + (IF ratio > 0 THEN TruncDiv(deposited * ratio * elapsed, Scale) ELSE 0)

WithdrawEffect(Pay(_, _, _, _)) ==
    Did("withdraw") =>
        LET u == last'.a
            n == last'.n
            ud == user_data[<<u, last'.p>>]
            pool == pool_data[last'.p]
            elapsed == Min(now - ud.deposit_time, maturity - ud.deposit_time)
            pay1 == Pay(ud.accrued_rewards1, ud.deposited, pool.reward_ratio1, elapsed)
            pay2 == Pay(ud.accrued_rewards2, ud.deposited, pool.reward_ratio2, elapsed)
            after == PositionIn(user_data', <<u, last'.p>>)
        IN
        /\ last'.ret = n
        /\ balance'[pool_token][u] = balance[pool_token][u] + n
        /\ balance'[pool_token][FarmAddr] = balance[pool_token][FarmAddr] - n
        /\ balance'[rewarded_token1][u] = balance[rewarded_token1][u] + pay1
        /\ balance'[rewarded_token1][FarmAddr] = balance[rewarded_token1][FarmAddr] - pay1
        /\ HasToken2 =>
              /\ balance'[rewarded_token2][u] = balance[rewarded_token2][u] + pay2
              /\ balance'[rewarded_token2][FarmAddr] =
                    balance[rewarded_token2][FarmAddr] - pay2
        /\ after.deposited = ud.deposited - n
        /\ after.accrued_rewards1 = 0
        /\ after.accrued_rewards2 = 0

\* C7: a successful withdraw(withdrawer, amount, pool_id) returns amount, moves
\* amount of pool asset from the farm to the withdrawer, and pays the
\* withdrawer, on each enabled track i, exactly accrued_rewards_i + deposited *
\* ratio_i * elapsed / 10^7 (truncated, deposited before the withdrawal, elapsed
\* = min(now - deposit_time, maturity - deposit_time), a ratio that is not
\* positive earning nothing); afterwards the position's deposited is reduced by
\* amount and its accrued rewards are 0
C7_WithdrawPayout == [][WithdrawEffect(PayoutPos)]_vars

\* C7 as stated: the yield is deposited * ratio_i * elapsed / 10^7 whatever the
\* sign of ratio_i
C7_AsStated == [][WithdrawEffect(PayoutAsStated)]_vars

\* a withdraw has returned principal and paid rewards on both tracks, and the
\* position stays open
C7_Witness ==
    /\ last.op = "withdraw"
    /\ last.n > 0
    /\ last.pay1 > 1
    /\ last.pay2 > 0
    /\ <<last.a, last.p>> \in DOMAIN user_data

\* what a withdraw would pay now to the position stored under key k
PayoutNow1(k) == WithdrawPayout1(user_data[k], pool_data[k[2]])
PayoutNow2(k) == WithdrawPayout2(user_data[k], pool_data[k[2]])

\* deposit_time is set to now by a deposit and by a withdraw before maturity,
\* and to maturity by a withdraw at or after maturity
DepositTimeSet ==
    /\ Did("deposit") =>
          user_data'[<<last'.a, last'.p>>].deposit_time = now
    /\ Did("withdraw") /\ <<last'.a, last'.p>> \in DOMAIN user_data' =>
          user_data'[<<last'.a, last'.p>>].deposit_time =
             IF now < maturity THEN now ELSE maturity

\* once maturity is reached, waiting longer changes the payout of no position
NoAccrualPastMaturity ==
    now >= maturity /\ now' > now /\ initialized =>
        \A k \in DOMAIN user_data :
            /\ PayoutNow1(k)' = PayoutNow1(k)
            /\ PayoutNow2(k)' = PayoutNow2(k)

\* a position left open by a withdraw at or after maturity is owed no reward
PaidOutAtMaturity ==
    initialized =>
        \A k \in DOMAIN user_data :
            user_data[k].deposit_time = maturity =>
                PayoutNow1(k) = 0 /\ PayoutNow2(k) = 0

\* C8: rewards never accrue for time after maturity: deposit_time is set to
\* now by every deposit and every withdraw before maturity and to maturity by
\* a withdraw at or after maturity, the reward owed for principal held to
\* maturity does not change as time passes after maturity, and a position
\* already withdrawn from at or after maturity is paid no further reward
C8_AccrualStops ==
    /\ []PaidOutAtMaturity
    /\ [][DepositTimeSet /\ NoAccrualPastMaturity]_vars

\* after maturity a withdraw has paid the reward of principal held to maturity
\* and left part of the principal in the position
C8_Witness ==
    /\ last.op = "withdraw"
    /\ now > maturity
    /\ last.pay1 > 0
    /\ <<last.a, last.p>> \in DOMAIN user_data
    /\ user_data[<<last.a, last.p>>].deposit_time = maturity

\* a rejected deposit changes a position, AllocatedRewards, the pool counter
\* or a token balance
RejectedDepositChanges(u, n, p) ==
    /\ Deposit(u, n, p)
    /\ \/ user_data' # user_data
       \/ allocated_rewards1' # allocated_rewards1
       \/ allocated_rewards2' # allocated_rewards2
       \/ pool_counter' # pool_counter
       \/ balance' # balance

C3_FullRedemption ==
    [][Did("vault_withdraw") /\ last'.n = total_shares /\ total_shares > 0 =>
          /\ last'.ret = total_reserve
          /\ total_reserve' = 0
          /\ asset'[VaultAddr] = 0]_vars

C10_NoRepricing ==
    [][Did("set_quote") => get_current_quote = 0]_vars

\* set_quote at time T stores the expiry T + quote_period
QuoteExpiryStored ==
    Did("set_quote") => quote_expiration' = now + quote_period

\* a deposit of a valid amount inside [start, end] is refused for want of a
\* quote, and no deposit at all goes through
DepositWantsQuote ==
    \A u \in Users, n \in AmountSet :
        /\ VaultDepositResult(u, n) # "Ok"
        /\ n >= 0 /\ vault_start_time <= now /\ now <= end_time =>
              VaultDepositResult(u, n) = "QuoteRequired"

\* once the time is past the stored expiry the quote reads as zero and deposit
\* fails with the quote-required error
StaleAfterExpiry ==
    vault_stored /\ quote_expiration # Absent /\ now > quote_expiration =>
        get_current_quote = 0 /\ DepositWantsQuote

\* the same from the expiry time itself on
StaleFromExpiry ==
    vault_stored /\ quote_expiration # Absent /\ now >= quote_expiration =>
        get_current_quote = 0 /\ DepositWantsQuote

\* C11: a quote set at time T with quote period P reads as zero at every time
\* after T + P, and a deposit at any such time fails with the quote-required
\* error
C11_QuoteStaleness == []StaleAfterExpiry /\ [][QuoteExpiryStored]_vars

\* C11 as stated: the quote reads as zero at every time >= T + P
C11_AsStated == []StaleFromExpiry /\ [][QuoteExpiryStored]_vars

\* a non-zero quote was set, its expiry has passed while the vault is still
\* open, and a funded user's deposit is refused for want of a quote
C11_Witness ==
    /\ vault_stored
    /\ current_quote > 0
    /\ quote_expiration # Absent
    /\ now > quote_expiration
    /\ now <= end_time
    /\ \E u \in Users : asset[u] >= 1 /\ VaultDepositResult(u, 1) = "QuoteRequired"

\* quote(): get_current_quote unwraps CurrentQuote and QuoteExpiration
VaultQuoteResult ==
    IF ~vault_stored THEN "Panic"
    ELSE IF quote_expiration = Absent THEN "Panic"
    ELSE "Ok"

\* the stored quote is live: value != 0, expires_at != 0 and now <= expires_at,
\* an expiry that was never stored counting as 0
QuoteLive ==
    /\ current_quote # 0
    /\ quote_expiration # Absent
    /\ quote_expiration # 0
    /\ now <= quote_expiration

\* quote() returns the stored value when the quote is live and 0 otherwise
QuoteReads ==
    vault_stored =>
        /\ VaultQuoteResult = "Ok"
        /\ get_current_quote = IF QuoteLive THEN current_quote ELSE 0

\* only set_quote moves the expiry, and only set_quote and initialize write
\* the stored value
QuoteWrittenBySetQuote ==
    /\ Did("set_quote") => current_quote' = last'.n
    /\ ~Did("set_quote") => quote_expiration' = quote_expiration
    /\ ~Did("set_quote") /\ ~Did("vault_initialize") => current_quote' = current_quote

\* C12: at any time now, quote() returns the stored value iff value != 0,
\* expires_at != 0 and now <= expires_at, where expires_at = time of the last
\* successful set_quote + quote_period; in every other case it returns 0, and
\* a quote lapses by the passing of time alone
C12_LiveQuote ==
    []QuoteReads /\ [][QuoteExpiryStored /\ QuoteWrittenBySetQuote]_vars

NoUsableQuote ==
    \/ quote_expiration = Absent
    \/ current_quote = 0
    \/ quote_expiration = 0
    \/ now > quote_expiration

\* a deposit call that changes something
VaultDepositChanges(u, n) == VaultDeposit(u, n) /\ vars' # vars

\* C14: on an initialized, open vault, a deposit made when no quote has ever
\* been set, or when the quote is zero or expired, is rejected with the
\* quote-required error, and mints no shares, moves no asset and leaves Reserve
\* and TotalShares unchanged
C14_DepositNeedsQuote ==
    vault_stored /\ vault_start_time <= now /\ now < end_time /\ NoUsableQuote =>
        \A u \in Users, n \in 0 .. MaxAmount :
            /\ VaultDepositResult(u, n) = "QuoteRequired"
            /\ ~ENABLED VaultDepositChanges(u, n)

\* a withdraw call that changes something
VaultWithdrawChanges(u, n) == VaultWithdraw(u, n) /\ vars' # vars

\* C15: withdraw fails at every time now < end_time, whatever the caller's
\* share balance, and at any time while TotalRedemption is zero; deposit fails
\* at every time now < start_time or now > end_time; the failed call changes
\* no state
C15_MaturityGating ==
    vault_stored =>
        /\ now < end_time \/ total_reserve = 0 =>
              \A u \in Users, n \in -1 .. MaxShares :
                  /\ VaultWithdrawResult(u, n) # "Ok"
                  /\ ~ENABLED VaultWithdrawChanges(u, n)
        /\ now < vault_start_time \/ now > end_time =>
              \A u \in Users, n \in AmountSet :
                  /\ VaultDepositResult(u, n) # "Ok"
                  /\ ~ENABLED VaultDepositChanges(u, n)

\* past maturity with no redemption posted: a holder's withdraw of all their
\* shares is refused, and so is a funded user's deposit under a live quote
C15_Witness ==
    /\ vault_stored
    /\ now > end_time
    /\ total_reserve = 0
    /\ \E u \in Users :
          /\ shares[u] > 0
          /\ VaultWithdrawResult(u, shares[u]) = "ReserveNotSet"
    /\ \E u \in Users :
          /\ asset[u] > 0
          /\ VaultDepositResult(u, 1) = "MaturityReached"

\* the phase of the vault: 0 Uninitialized, 1 Open (before end), 2 Matured (no
\* redemption posted), 3 Redeeming (redemption posted)
Phase ==
    IF ~vault_stored THEN 0
    ELSE IF now < end_time THEN 1
    ELSE IF total_reserve = 0 THEN 2
    ELSE 3

DepositCanSucceed == \E u \in Users, n \in AmountSet : VaultDepositResult(u, n) = "Ok"

WithdrawCanSucceed ==
    \E u \in Users, n \in -1 .. MaxShares : VaultWithdrawResult(u, n) = "Ok"

\* a deposit succeeds only in Open, when start <= now < end, a withdraw only in
\* Redeeming, and never both in one state
PhaseGates ==
    /\ DepositCanSucceed => Phase = 1 /\ vault_start_time <= now /\ now < end_time
    /\ WithdrawCanSucceed => Phase = 3
    /\ ~(DepositCanSucceed /\ WithdrawCanSucceed)

\* C16: the vault only moves forward through Uninitialized, Open [start, end),
\* Matured and Redeeming; a deposit succeeds only in Open, a withdraw only in
\* Redeeming, so in no reachable state can both a deposit and a withdraw
\* succeed
C16_PhaseMachine == []PhaseGates /\ [][Phase' >= Phase]_vars

\* a redemption of a positive amount was posted earlier: set_total_reserve is
\* the only call that takes the asset from the admin
PostedBefore == asset[AdminAddr] < AdminFunds

\* set_total_redemption succeeds only for the admin at now >= end_time, pulls
\* the amount from the admin into the vault and records it
PostingEffect ==
    Did("set_total_reserve") =>
        LET amount == last'.n IN
        /\ last'.a = vault_admin
        /\ now >= end_time
        /\ asset'[vault_admin] = asset[vault_admin] - amount
        /\ asset'[VaultAddr] = asset[VaultAddr] + amount
        /\ total_reserve' = amount

\* C17: set_total_redemption succeeds only when called by the admin at a time
\* now >= end_time; it pulls amount of the asset from the admin into the vault
\* and records it; and after one call has succeeded with amount > 0, every
\* later set_total_redemption call fails
C17_PostedOnce ==
    [][PostingEffect /\ (Did("set_total_reserve") => ~PostedBefore)]_vars

\* an initialize call that changes something
VaultInitializeChanges(i) ==
    VaultInitialize(AdminAddr, i[1], i[2], i[3], TreasuryAddr) /\ vars' # vars

\* C18: initialize on a vault on which initialize has already succeeded always
\* fails, whatever the arguments of the first or the second call and whether
\* or not maturity has passed, and leaves every stored field unchanged
C18_NoDoubleInit ==
    vault_stored =>
        /\ VaultInitializeResult = "AlreadyInitialized"
        /\ \A i \in VaultInitInputs : ~ENABLED VaultInitializeChanges(i)

\* right after a successful initialize total_bonds(), reserves(),
\* TotalRedemption and quote() all read 0
ReadsZeroAfterInitialize ==
    Did("vault_initialize") =>
        /\ total_shares' = 0
        /\ reserve' = 0
        /\ total_reserve' = 0
        /\ VaultQuoteResult' = "Ok"
        /\ get_current_quote' = 0

\* C19: the first initialize call on an uninitialized vault succeeds, and
\* immediately afterwards total_bonds(), reserves(), TotalRedemption and
\* quote() all read 0
C19_InitializeResult ==
    /\ [](~vault_stored => VaultInitializeResult = "Ok")
    /\ [][ReadsZeroAfterInitialize]_vars

(***************************************************************************)
(* Initialization of the farm                                              *)
(***************************************************************************)

\* an initialize call that changes something stored by the farm
InitializeChanges(adm, i, mat, m1) ==
    Initialize(adm, i[1], i[2], i[3], mat, m1, i[4]) /\ farmVars' # farmVars

\* C20: once initialize has succeeded, every later initialize call fails with
\* AlreadyInitialized whatever its arguments, and admin, reward tokens, pool
\* token, maturity, max ratios, AllocatedRewards and the pool counter keep
\* their values
C20_FarmNoDoubleInit ==
    initialized =>
        \A adm \in CallerSet, i \in InitInputs,
           mat \in {MaturityTime, MaturityTime + 1}, m1 \in {Scale, 2 * Scale} :
            /\ InitializeResult(i[1], i[2], i[3]) = "AlreadyInitialized"
            /\ ~ENABLED InitializeChanges(adm, i, mat, m1)

\* an initialized farm with a pool and rewards allocated to a position, on
\* which initialize is refused
C20_Witness ==
    /\ initialized
    /\ pool_counter > 0
    /\ allocated_rewards1 > 0
    /\ DOMAIN user_data # {}
    /\ InitializeResult("T1", NoAddr, "TP") = "AlreadyInitialized"

\* the token arguments of an initialize call clash: reward token 1 is the pool
\* asset, reward token 2 is given and is the pool asset, or the two reward
\* tokens are the same
TokensClash(i) ==
    \/ i[1] = i[3]
    \/ i[2] # NoAddr /\ i[2] = i[3]
    \/ i[2] # NoAddr /\ i[2] = i[1]

\* C21: initialize is rejected when reward token 1 equals the pool asset, when
\* reward token 2 is given and equals the pool asset, or when reward token 2
\* equals reward token 1; a rejected initialize stores nothing and the farm
\* stays uninitialized; so in every initialized farm the pool asset and the
\* reward tokens are pairwise distinct
C21_TokenDistinctness ==
    /\ \A i \in InitInputs :
          TokensClash(i) =>
              /\ InitializeResult(i[1], i[2], i[3]) # "Ok"
              /\ ~initialized =>
                    InitializeResult(i[1], i[2], i[3]) \in {"TokenConflict", "SameRewardTokens"}
              /\ ~ENABLED InitializeChanges(AdminAddr, i, MaturityTime, Scale)
    /\ initialized =>
          /\ rewarded_token1 # pool_token
          /\ HasToken2 =>
                /\ rewarded_token2 # pool_token
                /\ rewarded_token2 # rewarded_token1

\* initialize has just succeeded on a farm with two reward tracks
C21_Witness ==
    /\ initialized
    /\ last.op = "initialize"
    /\ HasToken2
    /\ \E i \in InitInputs : TokensClash(i)

\* the farm is stopped, the amount is not positive, the pool does not exist,
\* the pool has not started or the farm has matured
DepositGated(n, p) ==
    \/ stopped
    \/ n <= 0
    \/ p \notin DOMAIN pool_data
    \/ now < pool_data[p].start_time
    \/ now >= maturity

\* a gated deposit fails and changes nothing
GatedDepositFails ==
    \A u \in Users, n \in AmountSet, p \in PoolIdSet :
        DepositGated(n, p) =>
            /\ DepositResult(u, n, p) # "Ok"
            /\ ~ENABLED RejectedDepositChanges(u, n, p)

\* a deposit that went through was not gated, and was made before maturity
DepositPassedGates ==
    Did("deposit") => ~DepositGated(last'.n, last'.p) /\ now < maturity

\* C22: deposit fails whenever the farm is stopped, amount <= 0, the pool id
\* does not exist, now < pool.start_time, or now >= maturity; no deposit ever
\* succeeds at a time now >= maturity
C22_DepositGating == []GatedDepositFails /\ [][DepositPassedGates]_vars

\* a matured farm with a pool, rewards in custody and room to allocate, where
\* a funded user's deposit is refused
C22_Witness ==
    /\ initialized
    /\ ~stopped
    /\ now >= maturity
    /\ 0 \in DOMAIN pool_data
    /\ BalanceOf(rewarded_token1, FarmAddr) > allocated_rewards1
    /\ \E u \in Users :
          /\ BalanceOf(pool_token, u) > 0
          /\ DepositResult(u, 1, 0) = "PoolNotActive"

\* the cases in which a withdraw goes through, the stop switch playing no
\* part: a non-negative amount within the caller's position in an existing,
\* started pool, the farm holding the principal and the rewards to pay
WithdrawAdmissible(u, n, p) ==
    /\ n >= 0
    /\ p \in DOMAIN pool_data
    /\ <<u, p>> \in DOMAIN user_data
    /\ LET ud == user_data[<<u, p>>]
           pool == pool_data[p]
           elapsed == Min(now - ud.deposit_time, maturity - ud.deposit_time)
           pay1 == PayoutPos(ud.accrued_rewards1, ud.deposited, pool.reward_ratio1, elapsed)
           pay2 == IF HasToken2
                   THEN PayoutPos(ud.accrued_rewards2, ud.deposited,
                                  pool.reward_ratio2, elapsed)
                   ELSE 0
       IN /\ n <= ud.deposited
          /\ now >= pool.start_time
          /\ BalanceOf(pool_token, FarmAddr) >= n
          /\ pay1 > 0 => BalanceOf(rewarded_token1, FarmAddr) >= pay1
          /\ pay2 > 0 => BalanceOf(rewarded_token2, FarmAddr) >= pay2

\* while the farm is stopped every deposit fails with ContractStopped and
\* changes nothing, and a withdraw succeeds in exactly the cases in which it
\* would otherwise
StoppedFarm ==
    stopped =>
        /\ \A u \in Users, n \in AmountSet, p \in PoolIdSet :
              /\ DepositResult(u, n, p) = "ContractStopped"
              /\ ~ENABLED RejectedDepositChanges(u, n, p)
        /\ \A u \in Users, n \in AmountSet, p \in PoolIdSet :
              WithdrawResult(u, n, p) = "Ok" <=> WithdrawAdmissible(u, n, p)

\* only set_contract_stopped moves the switch, to the value it is given
StopSwitch ==
    /\ Did("set_contract_stopped") => stopped' = (last'.n = 1)
    /\ stopped' # stopped => Did("set_contract_stopped")

\* C23: after set_contract_stopped(true) every deposit fails with
\* ContractStopped until set_contract_stopped(false) is called, while a
\* withdraw succeeds while the farm is stopped in exactly the cases, and with
\* exactly the payouts and state changes, of a farm that is not stopped
C23_CircuitBreaker ==
    /\ []StoppedFarm
    /\ [][StopSwitch /\ (stopped => WithdrawEffect(PayoutPos))]_vars

\* a withdraw has paid principal and reward out of a stopped farm, in which a
\* funded user's deposit is refused
C23_Witness ==
    /\ stopped
    /\ last.op = "withdraw"
    /\ last.n > 0
    /\ last.pay1 > 0
    /\ \E u \in Users, p \in DOMAIN pool_data :
          /\ BalanceOf(pool_token, u) > 0
          /\ now < maturity
          /\ DepositResult(u, 1, p) = "ContractStopped"

\* a withdraw call that moves tokens or changes a position or the allocation
RejectedWithdrawChanges(u, n, p) ==
    /\ Withdraw(u, n, p)
    /\ \/ user_data' # user_data
       \/ allocated_rewards1' # allocated_rewards1
       \/ allocated_rewards2' # allocated_rewards2
       \/ balance' # balance

\* C24: withdraw fails when amount is negative, when amount exceeds the
\* position's deposited, when the pool id does not exist (PoolNotFound) or when
\* the caller has no position in that pool (UserNotFound); a failed withdraw
\* transfers no tokens and leaves the position and AllocatedRewards_1/2
\* unchanged
C24_WithdrawRejections ==
    \A u \in Users, n \in -1 .. MaxAmount + 1, p \in PoolIdSet :
        LET res == WithdrawResult(u, n, p) IN
        /\ n < 0 => res = "InvalidAmount"
        /\ n >= 0 /\ p \notin DOMAIN pool_data => res = "PoolNotFound"
        /\ n >= 0 /\ p \in DOMAIN pool_data /\ <<u, p>> \notin DOMAIN user_data =>
              res = "UserNotFound"
        /\ <<u, p>> \in DOMAIN user_data /\ n > user_data[<<u, p>>].deposited =>
              res = "InvalidAmount"
        /\ res # "Ok" => ~ENABLED RejectedWithdrawChanges(u, n, p)

\* one user holds a position smaller than the largest amount asked for, the
\* other holds none, and a pool id is still unused: the three refusals happen
C24_Witness ==
    /\ \E u \in Users :
          /\ <<u, 0>> \in DOMAIN user_data
          /\ user_data[<<u, 0>>].deposited < MaxAmount
          /\ WithdrawResult(u, MaxAmount, 0) = "InvalidAmount"
          /\ ENABLED Withdraw(u, 1, 0)
    /\ \E u \in Users : WithdrawResult(u, 1, 0) = "UserNotFound"
    /\ \E p \in PoolIdSet, u \in Users : WithdrawResult(u, 1, p) = "PoolNotFound"

(***************************************************************************)
(* The farm's pool ids                                                     *)
(***************************************************************************)

\* the farm with up to MaxPoolIds pools, used by one depositor
PoolsNext ==
    \/ \E i \in InitInputs :
          Initialize(AdminAddr, i[1], i[2], i[3], MaturityTime, Scale, i[4])
    \/ /\ pool_counter < MaxPoolIds
       /\ \E c \in CallerSet, i \in PoolInputs : CreatePool(c, i[1], i[2], i[3])
    \/ \E p \in 0 .. MaxPoolIds : Deposit("u1", 1, p)
    \/ \E p \in 0 .. MaxPoolIds : Withdraw("u1", 1, p)
    \/ \E c \in CallerSet : WithdrawUnallocatedRewards(c)
    \/ \E c \in CallerSet, f \in BOOLEAN : SetContractStopped(c, f)
    \/ \E tok \in {"T1", "T2"} : FundRewards(tok, MaxReward)
    \/ Tick

SpecPools == Init /\ [][PoolsNext]_vars

\* the stored pools are those with the ids below the pool counter
PoolsCounted ==
    /\ pool_counter = Cardinality(DOMAIN pool_data)
    /\ DOMAIN pool_data = 0 .. pool_counter - 1

\* a successful create_pool returns the number of pools created before it and
\* creates one more; no other step, a rejected create_pool included, moves the
\* counter
IdsInSequence ==
    /\ Did("create_pool") =>
          /\ last'.ret = pool_counter
          /\ pool_counter' = pool_counter + 1
          /\ last'.ret \in DOMAIN pool_data'
    /\ ~Did("create_pool") => pool_counter' = pool_counter

\* a stored pool stays stored as it is
PoolsImmutable ==
    \A p \in DOMAIN pool_data :
        /\ p \in DOMAIN pool_data'
        /\ pool_data'[p] = pool_data[p]

\* C25: the k-th successful create_pool returns id k - 1, a rejected
\* create_pool consumes no id, the pool counter always equals the number of
\* stored pools, and a stored pool's start_time and reward ratios are never
\* changed by a later operation
C25_PoolIds == []PoolsCounted /\ [][IdsInSequence /\ PoolsImmutable]_vars

\* the third pool has just been created with id 2, after a deposit into an
\* earlier pool
C25_Witness ==
    /\ last.op = "create_pool"
    /\ last.ret = 2
    /\ pool_counter = 3
    /\ \E k \in DOMAIN user_data : user_data[k].deposited > 0

\* create_pool's arguments are among those the specification refuses: ratio 1
\* above its cap, ratio 2 given in a farm without a second reward token, ratio
\* 2 above its cap, or ratio 2 left out in a farm with a second reward token
PoolRefusedAsSpecified(reward_ratio1, reward_ratio2) ==
    \/ reward_ratio1 > max_reward_ratio1
    \/ reward_ratio2.some /\ ~HasToken2
    \/ reward_ratio2.some /\ max_reward_ratio2.some
          /\ reward_ratio2.v > max_reward_ratio2.v
    \/ ~reward_ratio2.some /\ HasToken2

\* C26: create_pool is rejected when ratio1 > max_ratio1, when ratio2 is
\* supplied but the farm has no second reward token, when ratio2 > max_ratio2,
\* and when ratio2 is omitted although the second track is enabled; so every
\* stored pool has a non-zero ratio2 only in a farm that has a second reward
\* token
C26_PoolValidation ==
    /\ \A c \in CallerSet, i \in PoolInputs :
          PoolRefusedAsSpecified(i[2], i[3]) => CreatePoolResult(c, i[2], i[3]) # "Ok"
    /\ \A p \in DOMAIN pool_data :
          pool_data[p].reward_ratio2 # 0 => HasToken2

\* the sum of deposited over the positions keys
RECURSIVE Deposited(_)
Deposited(keys) ==
    IF keys = {} THEN 0
    ELSE LET k == CHOOSE x \in keys : TRUE
         IN user_data[k].deposited + Deposited(keys \ {k})

\* the farm holds the principal of every position in the pool asset
PrincipalHeld ==
    initialized => Deposited(DOMAIN user_data) <= BalanceOf(pool_token, FarmAddr)

\* a withdraw takes exactly the withdrawn principal out of the farm's pool
\* asset, whatever rewards it pays; the sweep takes nothing out of it; and
\* nothing else lowers it
PoolAssetMoves ==
    initialized =>
        LET before == BalanceOf(pool_token, FarmAddr)
            after == balance'[pool_token][FarmAddr]
        IN /\ Did("withdraw") => after = before - last'.n
           /\ Did("withdraw_unallocated_rewards") => after = before
           /\ after < before => Did("withdraw")

\* C27: in every reachable state the sum of deposited over all stored
\* positions is at most the farm's balance of the pool asset, and neither
\* reward payouts nor withdraw_unallocated_rewards reduce that balance
C27_PrincipalConserved == []PrincipalHeld /\ [][PoolAssetMoves]_vars

\* a withdraw has just paid a reward while another position stays deposited
C27_Witness ==
    /\ last.op = "withdraw"
    /\ last.n > 0
    /\ last.pay1 > 0
    /\ DOMAIN user_data # {}
    /\ Deposited(DOMAIN user_data) = BalanceOf(pool_token, FarmAddr)

\* the farm's balance of reward token i, nothing where the token is absent
RewardBalance(b, i) ==
    IF i = 1 THEN b[rewarded_token1][FarmAddr]
    ELSE IF HasToken2 THEN b[rewarded_token2][FarmAddr] ELSE 0

\* the sweep fails before maturity and succeeds for the admin from maturity on
SweepGate ==
    initialized =>
        \A c \in CallerSet :
            /\ now < maturity => WithdrawUnallocatedResult(c) # "Ok"
            /\ now >= maturity /\ c = admin => WithdrawUnallocatedResult(c) = "Ok"

\* what a successful sweep does: max(balance_i - AllocatedRewards_i, 0) of each
\* reward token leaves the farm and is returned, the allocations and the
\* positions stay, and the farm still holds the allocations
SweepEffect ==
    Did("withdraw_unallocated_rewards") =>
        LET sweep1 == Max(RewardBalance(balance, 1) - allocated_rewards1, 0)
            sweep2 == Max(RewardBalance(balance, 2) - allocated_rewards2, 0)
        IN /\ now >= maturity
           /\ last'.pay1 = sweep1
           /\ last'.pay2 = sweep2
           /\ RewardBalance(balance', 1) = RewardBalance(balance, 1) - sweep1
           /\ RewardBalance(balance', 2) = RewardBalance(balance, 2) - sweep2
           /\ UNCHANGED <<allocated_rewards1, allocated_rewards2, user_data>>
           /\ RewardBalance(balance', 1) >= allocated_rewards1'
           /\ RewardBalance(balance', 2) >= allocated_rewards2'

\* C28: withdraw_unallocated_rewards fails at every time now < maturity; at
\* now >= maturity it transfers to the admin exactly
\* max(balance_i - AllocatedRewards_i, 0) of each reward token, returns those
\* two amounts, and leaves AllocatedRewards_1/2 and every position unchanged,
\* so afterwards the farm still holds at least AllocatedRewards_i of each
\* reward token
C28_Sweep == []SweepGate /\ [][SweepEffect]_vars

\* the sum of the share-token balances of the holders hs
RECURSIVE ShareSupply(_)
ShareSupply(hs) ==
    IF hs = {} THEN 0
    ELSE LET h == CHOOSE x \in hs : TRUE
         IN shares[h] + ShareSupply(hs \ {h})

\* TotalShares is the sum of the holders' share balances
SharesCounted == total_shares = ShareSupply(ShareHolders)

\* TotalShares grows only in a successful deposit and shrinks only in a
\* successful withdraw; a step that is no call of the vault, such as a share
\* transfer, leaves it unchanged
SupplyMoves ==
    /\ total_shares' > total_shares => Did("vault_deposit")
    /\ total_shares' < total_shares => Did("vault_withdraw")
    /\ \A h \in ShareHolders :
          /\ shares'[h] > shares[h] /\ total_shares' = total_shares =>
                \E g \in ShareHolders : shares'[g] < shares[g]
          /\ shares'[h] < shares[h] /\ total_shares' = total_shares =>
                \E g \in ShareHolders : shares'[g] > shares[g]

\* a mint called on the share token by a user or by the admin is refused
DirectMintRefused ==
    \A c \in CallerSet : ShareMintResult(c) # "Ok"

\* C29: TotalShares equals the sum of all holders' share-token balances in
\* every reachable state; shares are created only by a successful vault
\* deposit and destroyed only by a successful vault withdraw; a direct mint on
\* the share token by anyone other than the vault is rejected; and share
\* transfers between holders leave TotalShares unchanged
C29_ShareSupply ==
    /\ [](SharesCounted /\ DirectMintRefused)
    /\ [][SupplyMoves]_vars

\* a successful withdraw leaves every other holder's redemption as it was: the
\* payout for n shares that the holder still has is the same after it as before
SamePayoutAfterWithdraw ==
    Did("vault_withdraw") =>
        \A v \in Users \ {last'.a}, n \in 1 .. MaxShares :
            shares'[v] >= n =>
                /\ total_reserve' # 0
                /\ AssetAmount(total_reserve', total_shares', n) =
                      AssetAmount(total_reserve, total_shares, n)

\* C30: after the total redemption value is posted, any two holders who redeem
\* the same number of shares receive the same payout, whichever of them
\* withdraws first and however the other holders' withdrawals are interleaved
C30_ProRata == [][SamePayoutAfterWithdraw]_vars

(***************************************************************************)
(* Further properties of the vault                                         *)
(***************************************************************************)

\* once the redemption is posted, a holder can redeem exactly the shares the
\* holder has, whoever deposited for them
RedeemsOwnBalance ==
    vault_stored /\ now >= end_time /\ total_reserve > 0 =>
        \A v \in Users, n \in 1 .. MaxShares :
            VaultWithdrawResult(v, n) = "Ok" <=> n <= shares[v]

\* the step moves one share from u to v through the share token
SharesSent(u, v) ==
    /\ u # v
    /\ shares[u] >= 1
    /\ shares' = Transfer(shares, u, v, 1)
    /\ total_shares' = total_shares
    /\ last' = NoCall

\* after a transfer the receiver redeems what the sender could have redeemed,
\* for the same payout
ReceiverRedeemsAsSender ==
    \A u, v \in Users :
        SharesSent(u, v) =>
            \A n \in 1 .. shares[u] :
                n <= shares'[v] =>
                    /\ VaultWithdrawResult(v, n)' = VaultWithdrawResult(u, n)
                    /\ AssetAmount(total_reserve', total_shares', n) =
                          AssetAmount(total_reserve, total_shares, n)

\* C31: after shares are transferred from the depositor to another address
\* through the share token, the new holder can withdraw them once redemption
\* is set and receives the payout the depositor would have received; withdraw
\* depends only on the caller's share balance, not on who deposited
C31_BearerShares == []RedeemsOwnBalance /\ [][ReceiverRedeemsAsSender]_vars

\* u2 never paid for shares, holds none any more and has just been paid for
\* the share u1 deposited for
C31_Witness ==
    /\ last.op = "vault_withdraw"
    /\ last.a = "u2"
    /\ last.ret > 0
    /\ asset["u2"] = VaultFunds + last.ret
    /\ asset["u1"] = VaultFunds - 1
    /\ total_shares = 0

\* the vault with its treasury setter
VaultConfigNext ==
    \/ \E i \in VaultInitInputs :
          VaultInitialize(AdminAddr, i[1], i[2], i[3], TreasuryAddr)
    \/ \E c \in CallerSet : VaultSetQuote(c, 1)
    \/ \E u \in Users : VaultDeposit(u, 1)
    \/ \E u \in Users : VaultWithdraw(u, 1)
    \/ \E c \in CallerSet : VaultSetTotalReserve(c, AdminFunds)
    \/ \E c \in CallerSet, t \in {TreasuryAddr, NewTreasuryAddr} : VaultSetTreasury(c, t)
    \/ Tick

SpecVaultConfig == InitVault /\ [][VaultConfigNext]_vars

\* the configuration that initialize stores
VaultConfig == <<vault_admin, treasury, vault_start_time, end_time, quote_period>>

\* C32: after a successful initialize, the vault's admin address, treasury
\* address, start time, end time and quote period (with the asset and share
\* token addresses, the configuration) never change, under any sequence of
\* vault operations
C32_ConfigImmutable == [][vault_stored => UNCHANGED VaultConfig]_vars

(***************************************************************************)
(* Further properties of the farm                                          *)
(***************************************************************************)

\* the address a later set_admin names, and those that call the admin operations
NewAdminAddr == "adm2"
AdminCallers == CallerSet \cup {NewAdminAddr}

\* the farm with a changing admin, used by one depositor
AdminNext ==
    \/ \E i \in InitInputs :
          Initialize(AdminAddr, i[1], i[2], i[3], MaturityTime, Scale, i[4])
    \/ /\ pool_counter < MaxPools
       /\ \E c \in AdminCallers, i \in PoolInputs : CreatePool(c, i[1], i[2], i[3])
    \/ \E c \in AdminCallers, a \in {AdminAddr, NewAdminAddr} : SetAdmin(c, a)
    \/ \E p \in PoolIdSet : Deposit("u1", 1, p)
    \/ \E p \in PoolIdSet : Withdraw("u1", 1, p)
    \/ \E c \in AdminCallers : WithdrawUnallocatedRewards(c)
    \/ \E c \in AdminCallers, f \in BOOLEAN : SetContractStopped(c, f)
    \/ \E tok \in {"T1", "T2"} : FundRewards(tok, MaxReward)
    \/ Tick

SpecAdmin == Init /\ [][AdminNext]_vars

\* the results of the four admin operations when c authorizes them
AdminResults(c) ==
    { CreatePoolResult(c, i[2], i[3]) : i \in PoolInputs }
        \cup { SetAdminResult(c), SetContractStoppedResult(c),
               WithdrawUnallocatedResult(c) }

\* before initialize every admin operation fails with NotInitialized; after it
\* none succeeds unless the stored admin authorizes it
AdminOnly ==
    \A c \in AdminCallers :
        /\ ~initialized => AdminResults(c) = {"NotInitialized"}
        /\ initialized /\ c # admin => AdminResults(c) = {"AuthFailed"}
        /\ initialized /\ c = admin =>
              /\ "AuthFailed" \notin AdminResults(c)
              /\ SetAdminResult(c) = "Ok"
              /\ SetContractStoppedResult(c) = "Ok"

\* a successful set_admin hands the four operations over to the new admin
AdminHandover ==
    Did("set_admin") =>
        /\ admin' = last'.a
        /\ \A c \in AdminCallers :
              IF c = last'.a
              THEN "AuthFailed" \notin AdminResults(c)'
              ELSE AdminResults(c)' = {"AuthFailed"}

\* a successful admin operation was authorized by the admin stored before it
AdminAuthorized ==
    \A op \in {"create_pool", "set_contract_stopped", "withdraw_unallocated_rewards"} :
        Did(op) => last'.a = admin

\* C33: create_pool, set_admin, set_contract_stopped and
\* withdraw_unallocated_rewards succeed only when authorized by the address
\* currently stored as admin; after set_admin(new_admin) succeeds, the former
\* admin's authorization no longer suffices for any of them and new_admin's
\* does; before initialize each of them fails with NotInitialized
C33_AdminOnly == []AdminOnly /\ [][AdminHandover /\ AdminAuthorized]_vars

\* the admin was changed, and the new admin has just created a pool that the
\* former admin can no longer create
C33_Witness ==
    /\ admin = NewAdminAddr
    /\ last.op = "create_pool"
    /\ last.a = NewAdminAddr
    /\ SetContractStoppedResult(AdminAddr) = "AuthFailed"

\* what the query returns for a stored position is what a withdraw pays at the
\* same time, next to the stored principal and deposit time
QueryMirrorsWithdraw ==
    \A k \in DOMAIN user_data :
        GetUserInfoResult(k[1], k[2]) = "Ok" /\
        LET info == get_user_info(k[1], k[2])
            ud == user_data[k]
            pool == pool_data[k[2]]
        IN /\ info.deposited = ud.deposited
           /\ info.deposit_time = ud.deposit_time
           /\ info.accrued_rewards1 = WithdrawPayout1(ud, pool)
           /\ info.accrued_rewards2 = WithdrawPayout2(ud, pool)

\* a successful withdraw pays the rewards the query returned just before it
WithdrawPaysQueried ==
    Did("withdraw") =>
        LET info == get_user_info(last'.a, last'.p) IN
        /\ last'.pay1 = info.accrued_rewards1
        /\ last'.pay2 = info.accrued_rewards2
        /\ balance'[rewarded_token1][FarmAddr] =
              balance[rewarded_token1][FarmAddr] - info.accrued_rewards1
        /\ HasToken2 =>
              balance'[rewarded_token2][FarmAddr] =
                 balance[rewarded_token2][FarmAddr] - info.accrued_rewards2

\* C34: get_user_info(user, pool_id) changes no stored state, and the
\* accrued_rewards_1/2 it returns at time now equal exactly the reward amounts
\* that a withdraw by that user from that pool at the same time would pay out;
\* its deposited and deposit_time are the stored ones
C34_QueryRefinesWithdraw ==
    /\ []QueryMirrorsWithdraw
    /\ [][WithdrawPaysQueried]_vars
    /\ [][\A u \in Users, p \in PoolIdSet : GetUserInfo(u, p) => UNCHANGED <<farmVars, balance>>]_vars

\* after maturity a withdraw has just paid, on both reward tracks, what the
\* query returned
C34_Witness ==
    /\ last.op = "withdraw"
    /\ last.pay1 > 0
    /\ last.pay2 > 0
    /\ now > maturity

\* a stored position holds a principal
PositionsHoldPrincipal ==
    \A k \in DOMAIN user_data : user_data[k].deposited > 0

\* a position appears only by its owner's deposit into its pool, and it is
\* then fresh: the deposited amount, the time of the deposit, no accrued reward
PositionCreated ==
    \A k \in DOMAIN user_data' \ DOMAIN user_data :
        /\ Did("deposit")
        /\ k = <<last'.a, last'.p>>
        /\ user_data'[k] = [deposited |-> last'.n, deposit_time |-> now,
                            accrued_rewards1 |-> 0, accrued_rewards2 |-> 0]

\* a position disappears only by its owner's withdraw of all its principal,
\* and such a withdraw always removes it
PositionDeleted ==
    /\ \A k \in DOMAIN user_data \ DOMAIN user_data' :
          /\ Did("withdraw")
          /\ k = <<last'.a, last'.p>>
          /\ last'.n = user_data[k].deposited
    /\ Did("withdraw") =>
          LET k == <<last'.a, last'.p>> IN
          IF last'.n = user_data[k].deposited
          THEN k \notin DOMAIN user_data'
          ELSE /\ k \in DOMAIN user_data'
               /\ user_data'[k].deposited = user_data[k].deposited - last'.n

\* C35: a position record for (user, pool) exists if and only if its deposited
\* is greater than 0; it is created by the user's first deposit into the pool,
\* deleted by the withdraw that brings deposited to 0, and a deposit after a
\* full exit creates a fresh position with accrued rewards 0, deposit_time =
\* now and deposited = the new amount only
C35_PositionLifecycle ==
    /\ []PositionsHoldPrincipal
    /\ [][PositionCreated /\ PositionDeleted]_vars

\* a user who was paid a reward by an earlier withdraw has just deposited into
\* a pool where the user had no position left
C35_Witness ==
    /\ last.op = "deposit"
    /\ balance[rewarded_token1][last.a] > 0
    /\ user_data[<<last.a, last.p>>] =
          [deposited |-> last.n, deposit_time |-> now,
           accrued_rewards1 |-> 0, accrued_rewards2 |-> 0]

\* C36: in every reachable state, including while the farm is stopped, after
\* maturity, and after the admin has called withdraw_unallocated_rewards, a
\* withdraw of any amount with 0 <= amount <= deposited by the owner of an
\* existing position succeeds: the farm's reward-token balances always suffice
\* to pay that position's accrued rewards
C36_WithdrawPayable ==
    \A k \in DOMAIN user_data :
        \A n \in 0 .. user_data[k].deposited :
            WithdrawResult(k[1], n, k[2]) = "Ok"

\* a withdraw takes out of each allocation no more than it held
WithdrawWithinAllocation ==
    Did("withdraw") =>
        /\ allocated_rewards1 - allocated_rewards1' <= allocated_rewards1
        /\ allocated_rewards2 - allocated_rewards2' <= allocated_rewards2

\* C37: in every reachable state AllocatedRewards_1 >= 0 and
\* AllocatedRewards_2 >= 0; no withdraw ever releases or pays more than was
\* reserved by deposits, also when a position was built from several deposits
\* whose reserved amounts were each truncated separately
C37_AllocationNonNegative ==
    /\ [](allocated_rewards1 >= 0 /\ allocated_rewards2 >= 0)
    /\ [][WithdrawWithinAllocation]_vars

\* the redemption still owed is covered by the vault's asset balance
RedemptionCovered ==
    vault_stored => 0 <= total_reserve /\ total_reserve <= asset[VaultAddr]

\* TotalRedemption is set by a posting and then lowered only by the payouts of
\* withdraw, each taken out of the vault's balance; a deposit touches neither
RedemptionAccounted ==
    /\ Did("vault_withdraw") =>
          /\ total_reserve' = total_reserve - last'.ret
          /\ asset'[VaultAddr] = asset[VaultAddr] - last'.ret
    /\ Did("vault_deposit") =>
          /\ total_reserve' = total_reserve
          /\ asset'[VaultAddr] = asset[VaultAddr]
    /\ total_reserve' # total_reserve =>
          Did("set_total_reserve") \/ Did("vault_withdraw")

\* C38: from the moment the total redemption is posted, 0 <= TotalRedemption
\* <= the vault's balance of the underlying asset in every reachable state,
\* the payouts made by withdraw plus the remaining TotalRedemption equal the
\* amount posted, and deposits never change the vault's asset balance or
\* TotalRedemption
C38_RedemptionCustody == []RedemptionCovered /\ [][RedemptionAccounted]_vars

\* a withdraw that burns shares pays something
BurnPays ==
    Did("vault_withdraw") /\ last'.n > 0 => last'.ret > 0

\* while shares are outstanding and a redemption is left, a holder can redeem
\* all the holder's shares for a positive payout
FullRedemptionPays ==
    vault_stored /\ now >= end_time /\ total_reserve > 0 =>
        \A u \in Users :
            shares[u] > 0 =>
                /\ VaultWithdrawResult(u, shares[u]) = "Ok"
                /\ AssetAmount(total_reserve, total_shares, shares[u]) > 0

\* C39: every successful withdraw of amount > 0 shares pays the caller a
\* payout greater than 0, and as long as shares are outstanding and
\* TotalRedemption > 0 a holder's withdraw of all their shares succeeds with a
\* positive payout
C39_NoBurnForNothing == []FullRedemptionPays /\ [][BurnPays]_vars

\* the anchors of every stored position: the unsigned differences
\* now - deposit_time and maturity - deposit_time are defined
AnchorsWellFormed ==
    \A k \in DOMAIN user_data :
        /\ user_data[k].deposit_time <= now
        /\ user_data[k].deposit_time <= maturity
        /\ TimeElapsed(user_data[k]) >= 0

\* a deposit takes maturity - now before maturity only, and the position it
\* and a withdraw leave is anchored at a time that is not after now or maturity
AnchorsKept ==
    /\ Did("deposit") =>
          /\ maturity - now > 0
          /\ user_data'[<<last'.a, last'.p>>].deposit_time = now
    /\ Did("withdraw") =>
          /\ now < maturity => maturity - now > 0
          /\ <<last'.a, last'.p>> \in DOMAIN user_data' =>
                user_data'[<<last'.a, last'.p>>].deposit_time = Min(now, maturity)

\* C40: with a non-decreasing ledger clock, every stored position has
\* deposit_time <= now and deposit_time <= maturity, so the unsigned
\* subtractions now - deposit_time, maturity - deposit_time and maturity - now
\* in deposit, withdraw and get_user_info never underflow
C40_TimeAnchors == []AnchorsWellFormed /\ [][AnchorsKept]_vars

\* past maturity a partial withdraw has just left a position anchored at
\* maturity
C40_Witness ==
    /\ now > maturity
    /\ last.op = "withdraw"
    /\ <<last.a, last.p>> \in DOMAIN user_data
    /\ user_data[<<last.a, last.p>>].deposit_time = maturity

====
